---- MODULE Spec2Model ----
(***************************************************************************)
(* Model of the two scripts of intel-camera-quality-analysis:              *)
(*   build_intel_quality_dataset.py  (the builder: directory scan,        *)
(*       per-class cap, metric extraction, intermediate CSV)              *)
(*   analyze_intel_quality.py        (the analyzer: load, classify_row,    *)
(*       pass/fail summary, annotated CSV)                                 *)
(* Brightness and contrast are integers in thousandths of a grey level.    *)
(* The failure rate is a double, computed as the interpreter computes it;  *)
(* the summary line holds its ":.2f" rendering as text.                    *)
(***************************************************************************)
EXTENDS Integers, Sequences, FiniteSets, TLC

VARIABLES
    \* ---- the file system and the configuration (inputs of a run)
    root_is_dir,        \* os.path.isdir(TRAIN_DIR)
    root_listing,       \* os.listdir(TRAIN_DIR), in the platform's order
    dirs,               \* label -> os.listdir(class_dir), for the directories read so far
    \* ---- builder main()
    bpc,                \* position of the builder
    labels,             \* sorted root entries the outer loop has not reached yet
    label,              \* the outer loop variable
    files,              \* the listing the inner loop iterates over
    pos,                \* index in files of the next filename of the inner loop
    count,              \* rows appended for the current label
    image_id,           \* next Image_ID
    rows,               \* the list of row dictionaries
    csv_file,           \* intel_camera_quality.csv
    \* ---- analyzer main()
    apc,                \* position of the analyzer
    df,                 \* the DataFrame
    total, failed, passed,
    failure_rate,       \* the double failed / total * 100
    failure_rate_line,  \* the text "{failure_rate:.2f}" of the summary line, "" before it is printed
    reason_counts,      \* the failure reasons breakdown, or not shown
    annotated_file      \* intel_camera_quality_annotated.csv

fsVars == <<root_is_dir, root_listing, dirs>>
builderVars == <<bpc, labels, label, files, pos, count, image_id, rows, csv_file>>
analyzerVars ==
    <<apc, df, total, failed, passed, failure_rate, failure_rate_line, reason_counts,
      annotated_file>>
vars == <<fsVars, builderVars, analyzerVars>>

(***************************************************************************)
(* Bounds of the model.                                                    *)
(***************************************************************************)
\* largest number of entries of one class directory
MaxFiles == 3
\* the per-class cap of the run (the script is configured with 100)
IMAGES_PER_CLASS == 2

(***************************************************************************)
(* Names, strings and paths.                                               *)
(***************************************************************************)
TRAIN_DIR == "seg_train/seg_train"

\* Unicode code points of the entry names used in the root listings;
\* Python orders strings by code point.
CodePoints(name) ==
    CASE name = "buildings" -> <<98, 117, 105, 108, 100, 105, 110, 103, 115>>
      [] name = "forest"    -> <<102, 111, 114, 101, 115, 116>>
      [] name = "README.md" -> <<82, 69, 65, 68, 77, 69, 46, 109, 100>>

RECURSIVE SeqLess(_, _)
SeqLess(a, b) ==
    IF a = <<>> THEN b # <<>>
    ELSE IF b = <<>> THEN FALSE
    ELSE IF Head(a) # Head(b) THEN Head(a) < Head(b)
    ELSE SeqLess(Tail(a), Tail(b))

StrLess(s, t) == SeqLess(CodePoints(s), CodePoints(t))

RECURSIVE Insert(_, _)
Insert(x, s) ==
    IF s = <<>> THEN <<x>>
    ELSE IF StrLess(x, Head(s)) THEN <<x>> \o s
    ELSE <<Head(s)>> \o Insert(x, Tail(s))

RECURSIVE sorted(_)
sorted(s) == IF s = <<>> THEN <<>> ELSE Insert(Head(s), sorted(Tail(s)))

\* os.path.join(a, b)
PathJoin(a, b) == a \o "/" \o b

\* os.path.isdir(os.path.join(TRAIN_DIR, name)) for the root entries
IsClassDir(name) == name \in {"buildings", "forest"}

\* the root listings a run may find
RootListings ==
    { <<>>,
      <<"README.md">>,
      <<"forest">>,
      <<"forest", "README.md", "buildings">> }

(***************************************************************************)
(* Files of a class directory.                                             *)
(***************************************************************************)
\* str.lower() on the extensions that occur
Lower(ext) ==
    CASE ext = ".PNG" -> ".png"
      [] ext = ".jpg" -> ".jpg"
      [] ext = ".jpeg" -> ".jpeg"
      [] ext = ".gif" -> ".gif"

\* filename.lower().endswith((".jpg", ".jpeg", ".png"))
IsImageName(f) == Lower(f.ext) \in {".jpg", ".jpeg", ".png"}

\* what a file is: its extension, whether Pillow can open and decode it, and
\* the mean and standard deviation of its grey levels (thousandths)
FileKinds ==
    { [ext |-> ".jpg",  readable |-> TRUE,  brightness |-> 30000,  contrast |-> 10000],
      [ext |-> ".PNG",  readable |-> TRUE,  brightness |-> 120000, contrast |-> 45000],
      [ext |-> ".jpeg", readable |-> FALSE, brightness |-> 0,      contrast |-> 0],
      [ext |-> ".gif",  readable |-> TRUE,  brightness |-> 250000, contrast |-> 5000] }

\* the i-th entry of a listing is named img<i><ext>
FileName(i, kind) == "img" \o ToString(i) \o kind.ext

Listings == UNION { [1..n -> FileKinds] : n \in 0..MaxFiles }

\* variant: a failure yields zero metrics instead of (None, None)
compute_brightness_and_contrast_zero_on_error(f) ==
    [none |-> FALSE, brightness |-> f.brightness, contrast |-> f.contrast]

\* compute_brightness_and_contrast: (brightness, contrast), or (None, None)
\* when opening or decoding raises
compute_brightness_and_contrast(f) ==
    IF f.readable
    THEN [none |-> FALSE, brightness |-> f.brightness, contrast |-> f.contrast]
    ELSE [none |-> TRUE, brightness |-> 0, contrast |-> 0]

(***************************************************************************)
(* Tables: pandas DataFrame and CSV file.                                  *)
(***************************************************************************)
BuilderColumns == <<"Image_ID", "Filepath", "Label", "Brightness", "Contrast">>

\* pd.DataFrame(rows) for a list of dictionaries with the same keys: the
\* columns are the keys of the dictionaries, so an empty list has no columns
DataFrame(rs) ==
    [columns |-> IF rs = <<>> THEN <<>> ELSE BuilderColumns, rows |-> rs]

NoFile == [exists |-> FALSE, columns |-> <<>>, rows |-> <<>>]

\* df.to_csv(path, index=False): a header line naming the columns, then one
\* line per row
to_csv(d) == [exists |-> TRUE, columns |-> d.columns, rows |-> d.rows]

NoFrame == [columns |-> <<>>, rows |-> <<>>]
NoCounts == [shown |-> FALSE, counts |-> [s \in {} |-> 0]]

(***************************************************************************)
(* The builder: build_intel_quality_dataset.main().                        *)
(***************************************************************************)
\* variant: the error branch leaves an empty table behind before returning
AbortNoTrainDir_writes_table ==
    /\ bpc = "start"
    /\ ~root_is_dir
    /\ bpc' = "aborted"
    /\ csv_file' = to_csv(DataFrame(<<>>))
    /\ UNCHANGED <<fsVars, labels, label, files, pos, count, image_id, rows>>
    /\ UNCHANGED analyzerVars

\* line 96-99: the training directory is missing; main returns
AbortNoTrainDir ==
    /\ bpc = "start"
    /\ ~root_is_dir
    /\ bpc' = "aborted"
    /\ UNCHANGED <<fsVars, labels, label, files, pos, count, image_id, rows, csv_file>>
    /\ UNCHANGED analyzerVars

\* line 96-109: the directory exists; rows = [], image_id = 0 and the outer
\* loop gets sorted(os.listdir(TRAIN_DIR))
StartScan ==
    /\ bpc = "start"
    /\ root_is_dir
    /\ rows' = <<>>
    /\ image_id' = 0
    /\ labels' = sorted(root_listing)
    /\ bpc' = "labels"
    /\ UNCHANGED <<fsVars, label, files, pos, count, csv_file>>
    /\ UNCHANGED analyzerVars

\* line 109-115: the next root entry is not a directory; continue
SkipNotDirectory ==
    /\ bpc = "labels"
    /\ labels # <<>>
    /\ ~IsClassDir(Head(labels))
    /\ label' = Head(labels)
    /\ labels' = Tail(labels)
    /\ UNCHANGED <<fsVars, bpc, files, pos, count, image_id, rows, csv_file>>
    /\ UNCHANGED analyzerVars

\* line 109-123: the next root entry is a class directory; count = 0 and the
\* inner loop gets os.listdir(class_dir)
EnterClassDir ==
    /\ bpc = "labels"
    /\ labels # <<>>
    /\ IsClassDir(Head(labels))
    /\ label' = Head(labels)
    /\ labels' = Tail(labels)
    /\ count' = 0
    /\ \E listing \in Listings :
          /\ files' = listing
          /\ dirs' = (Head(labels) :> listing) @@ dirs
    /\ pos' = 1
    /\ bpc' = "files"
    /\ UNCHANGED <<root_is_dir, root_listing, image_id, rows, csv_file>>
    /\ UNCHANGED analyzerVars

\* line 123: the listing is exhausted; back to the outer loop
EndOfListing ==
    /\ bpc = "files"
    /\ pos > Len(files)
    /\ bpc' = "labels"
    /\ UNCHANGED <<fsVars, labels, label, files, pos, count, image_id, rows, csv_file>>
    /\ UNCHANGED analyzerVars

\* variant: the cap test is off by one
capReached_off_by_one(n) == n > IMAGES_PER_CLASS

\* line 125-126: the cap is reached; break
capReached(n) == n >= IMAGES_PER_CLASS

BreakAtCap ==
    /\ bpc = "files"
    /\ pos <= Len(files)
    /\ capReached(count)
    /\ bpc' = "labels"
    /\ UNCHANGED <<fsVars, labels, label, files, pos, count, image_id, rows, csv_file>>
    /\ UNCHANGED analyzerVars

\* line 129-130: not an image file name; continue
SkipNotImage ==
    /\ bpc = "files"
    /\ pos <= Len(files)
    /\ ~capReached(count)
    /\ ~IsImageName(files[pos])
    /\ pos' = pos + 1
    /\ UNCHANGED <<fsVars, bpc, labels, label, files, count, image_id, rows, csv_file>>
    /\ UNCHANGED analyzerVars

\* line 133-140: the metrics could not be computed; continue
SkipFailedImage ==
    /\ bpc = "files"
    /\ pos <= Len(files)
    /\ ~capReached(count)
    /\ IsImageName(files[pos])
    /\ compute_brightness_and_contrast(files[pos]).none
    /\ pos' = pos + 1
    /\ UNCHANGED <<fsVars, bpc, labels, label, files, count, image_id, rows, csv_file>>
    /\ UNCHANGED analyzerVars

\* variant: the counter is incremented before it is used
Row_id_incremented_first(id, path, lab, m) ==
    [Image_ID |-> id + 1, Filepath |-> path, Label |-> lab,
     Brightness |-> m.brightness, Contrast |-> m.contrast]

\* line 143-149: the row dictionary of one image
Row(id, path, lab, m) ==
    [Image_ID |-> id, Filepath |-> path, Label |-> lab,
     Brightness |-> m.brightness, Contrast |-> m.contrast]

\* line 133-156: the metrics are computed; append the row, increment the counters
AppendRow ==
    /\ bpc = "files"
    /\ pos <= Len(files)
    /\ ~capReached(count)
    /\ IsImageName(files[pos])
    /\ LET image_path == PathJoin(PathJoin(TRAIN_DIR, label), FileName(pos, files[pos]))
           m == compute_brightness_and_contrast(files[pos])
       IN  /\ ~m.none
           /\ rows' = Append(rows, Row(image_id, image_path, label, m))
    /\ image_id' = image_id + 1
    /\ count' = count + 1
    /\ pos' = pos + 1
    /\ UNCHANGED <<fsVars, bpc, labels, label, files, csv_file>>
    /\ UNCHANGED analyzerVars

\* line 158-167: after the outer loop, the table is saved
SaveCsv ==
    /\ bpc = "labels"
    /\ labels = <<>>
    /\ csv_file' = to_csv(DataFrame(rows))
    /\ bpc' = "done"
    /\ UNCHANGED <<fsVars, labels, label, files, pos, count, image_id, rows>>
    /\ UNCHANGED analyzerVars

Builder ==
    \/ AbortNoTrainDir
    \/ StartScan
    \/ SkipNotDirectory
    \/ EnterClassDir
    \/ EndOfListing
    \/ BreakAtCap
    \/ SkipNotImage
    \/ SkipFailedImage
    \/ AppendRow
    \/ SaveCsv

(***************************************************************************)
(* The analyzer: analyze_intel_quality.main().                             *)
(***************************************************************************)
BRIGHTNESS_MIN == 60
BRIGHTNESS_MAX == 200
CONTRAST_MIN == 20

\* a threshold in the unit of the metrics
Thousandths(x) == x * 1000

\* ";".join(reasons)
RECURSIVE Join(_)
Join(reasons) ==
    IF reasons = <<>> THEN ""
    ELSE IF Len(reasons) = 1 THEN Head(reasons)
    ELSE Head(reasons) \o ";" \o Join(Tail(reasons))

\* line 84-94: the list of triggered reasons
Reasons(row) ==
    (IF row.Brightness < Thousandths(BRIGHTNESS_MIN) THEN <<"too_dark">> ELSE <<>>)
    \o (IF row.Brightness > Thousandths(BRIGHTNESS_MAX) THEN <<"too_bright">> ELSE <<>>)
    \o (IF row.Contrast < Thousandths(CONTRAST_MIN) THEN <<"low_contrast">> ELSE <<>>)

\* variant: the status looks at the brightness rules only
classify_row_status_from_brightness(row) ==
    LET reasons == Reasons(row)
    IN  [Status |-> IF row.Brightness < Thousandths(BRIGHTNESS_MIN)
                       \/ row.Brightness > Thousandths(BRIGHTNESS_MAX)
                    THEN "FAIL" ELSE "PASS",
         Fail_Reasons |-> Join(reasons)]

\* variant: the thresholds themselves fail
classify_row_inclusive(row) ==
    LET reasons ==
            (IF row.Brightness <= Thousandths(BRIGHTNESS_MIN) THEN <<"too_dark">> ELSE <<>>)
            \o (IF row.Brightness >= Thousandths(BRIGHTNESS_MAX) THEN <<"too_bright">> ELSE <<>>)
            \o (IF row.Contrast <= Thousandths(CONTRAST_MIN) THEN <<"low_contrast">> ELSE <<>>)
    IN  IF reasons # <<>>
        THEN [Status |-> "FAIL", Fail_Reasons |-> Join(reasons)]
        ELSE [Status |-> "PASS", Fail_Reasons |-> ""]

\* variant: the rules are chained with elif, only the first reason is kept
classify_row_first_reason_only(row) ==
    LET reasons == Reasons(row)
    IN  IF reasons # <<>>
        THEN [Status |-> "FAIL", Fail_Reasons |-> Head(reasons)]
        ELSE [Status |-> "PASS", Fail_Reasons |-> ""]

\* line 68-105: (status, reason_str)
classify_row(row) ==
    LET reasons == Reasons(row)
    IN  IF reasons # <<>>
        THEN [Status |-> "FAIL", Fail_Reasons |-> Join(reasons)]
        ELSE [Status |-> "PASS", Fail_Reasons |-> ""]

\* variant: the failing rows are moved to the front
AddStatusColumns_failures_first(d) ==
    LET all == [i \in 1..Len(d.rows) |-> d.rows[i] @@ classify_row(d.rows[i])]
    IN  [columns |-> d.columns \o <<"Status", "Fail_Reasons">>,
         rows |-> SelectSeq(all, LAMBDA r : r.Status = "FAIL")
                  \o SelectSeq(all, LAMBDA r : r.Status = "PASS")]

\* line 109-115: df.apply(classify_row, axis=1, result_type="expand") and the
\* two column assignments, for a frame with at least one row
AddStatusColumns(d) ==
    [columns |-> d.columns \o <<"Status", "Fail_Reasons">>,
     rows |-> [i \in 1..Len(d.rows) |-> d.rows[i] @@ classify_row(d.rows[i])]]

\* (df["Status"] == "FAIL").sum()
CountFail(rs) == Len(SelectSeq(rs, LAMBDA r : r.Status = "FAIL"))

(***************************************************************************)
(* IEEE 754 double arithmetic, as far as the failure rate uses it.  A      *)
(* positive double is [mant, exp]: mant holds the 53-bit significand as    *)
(* six limbs of 9 bits, most significant first (so the first limb is in    *)
(* 128..255), and the value is mant * 2^exp; 0.0 has an empty mant.  The   *)
(* arithmetic goes limb by limb, so no intermediate number exceeds the     *)
(* machine integers of the checker.                                        *)
(***************************************************************************)
ZeroDouble == [mant |-> <<>>, exp |-> 0]

PowerOfTwo(k) == <<1, 2, 4, 8, 16, 32, 64, 128, 256, 512>>[k + 1]

\* the integer of the limbs divided by 2^s, 0 <= s <= 8, with as many limbs
ShiftRight(limbs, s) ==
    [i \in 1..Len(limbs) |->
        ((IF i = 1 THEN 0 ELSE limbs[i - 1]) % PowerOfTwo(s)) * PowerOfTwo(9 - s)
        + (limbs[i] \div PowerOfTwo(s))]

\* the integer of the limbs plus one
RECURSIVE Increment(_)
Increment(limbs) ==
    IF limbs = <<>> THEN <<1>>
    ELSE IF limbs[Len(limbs)] < 511
         THEN SubSeq(limbs, 1, Len(limbs) - 1) \o <<limbs[Len(limbs)] + 1>>
         ELSE Increment(SubSeq(limbs, 1, Len(limbs) - 1)) \o <<0>>

\* round to nearest, ties to even: the integer n of 53 + drop bits
\* (1 <= drop <= 8), times 2^e, plus a non-zero amount below its last bit
\* when sticky, as a double
RoundToDouble(n, drop, e, sticky) ==
    LET low == n[Len(n)] % PowerOfTwo(drop)
        roundBit == low \div PowerOfTwo(drop - 1)
        below == sticky \/ low % PowerOfTwo(drop - 1) # 0
        shifted == ShiftRight(n, drop)
        kept == SubSeq(shifted, Len(shifted) - 5, Len(shifted))
        up == roundBit = 1 /\ (below \/ kept[6] % 2 = 1)
        inc == Increment(kept)
    IN  IF ~up THEN [mant |-> kept, exp |-> e + drop]
        ELSE IF inc[1] < 256 THEN [mant |-> inc, exp |-> e + drop]
        ELSE [mant |-> <<128, 0, 0, 0, 0, 0>>, exp |-> e + drop + 1]

\* the number of zero bits before the first one bit of the binary expansion
\* of r / d, for 0 < r < d
RECURSIVE LeadingZeros(_, _)
LeadingZeros(r, d) == IF 2 * r >= d THEN 0 ELSE 1 + LeadingZeros(2 * r, d)

RECURSIVE TimesPowerOfTwo(_, _)
TimesPowerOfTwo(r, k) == IF k = 0 THEN r ELSE TimesPowerOfTwo(2 * r, k - 1)

\* the next n limbs of the binary expansion of r / d, for 0 <= r < d, and
\* the remainder left
RECURSIVE Expand(_, _, _)
Expand(r, d, n) ==
    IF n = 0 THEN [limbs |-> <<>>, rem |-> r]
    ELSE LET rest == Expand((512 * r) % d, d, n - 1)
         IN  [limbs |-> <<(512 * r) \div d>> \o rest.limbs, rem |-> rest.rem]

\* n / d in double arithmetic, for integers 0 <= n <= d, d > 0: the first 54
\* bits of the quotient from its leading one bit, rounded to 53
DoubleDivide(n, d) ==
    IF n = 0 THEN ZeroDouble
    ELSE LET k == LeadingZeros(n, 2 * d)
             x == Expand(TimesPowerOfTwo(n, k), 2 * d, 6)
         IN  RoundToDouble(x.limbs, 1, 0 - k - 53, x.rem # 0)

\* s * c for a sequence s of limbs and a small integer c: [limbs, carry], the
\* carry being the limb above those of s
RECURSIVE TimesSmall(_, _)
TimesSmall(s, c) ==
    IF s = <<>> THEN [limbs |-> <<>>, carry |-> 0]
    ELSE LET low == TimesSmall(Tail(s), c)
             v == Head(s) * c + low.carry
         IN  [limbs |-> <<v % 512>> \o low.limbs, carry |-> v \div 512]

\* the exact product mant * 100, seven limbs; it has 59 or 60 bits
Times100(mant) ==
    LET p == TimesSmall(mant, 100) IN <<p.carry>> \o p.limbs

\* x * 100 in double arithmetic
DoubleTimes100(x) ==
    IF x.mant = <<>> THEN ZeroDouble
    ELSE LET p == Times100(x.mant)
         IN  RoundToDouble(p, IF p[1] >= 32 THEN 7 ELSE 6, x.exp, FALSE)

\* the double x, 0 <= x <= 100, times 100 and rounded to an integer, ties to
\* even: the digits that the format ".2f" prints
Hundredths(x) ==
    IF x.mant = <<>> THEN 0
    ELSE LET p == Times100(x.mant)
             fracLen == 0 - x.exp
             q == fracLen \div 9
             s == fracLen % 9
             kept == SubSeq(p, 1, 7 - q)
             dropped == SubSeq(p, (IF q > 7 THEN 0 ELSE 7 - q) + 1, 7)
             v == IF kept = <<>> THEN 0
                  ELSE IF Len(kept) = 1 THEN kept[1]
                  ELSE 512 * kept[Len(kept) - 1] + kept[Len(kept)]
             whole == v \div PowerOfTwo(s)
             half == IF q > 7 THEN FALSE
                     ELSE IF s > 0 THEN (v \div PowerOfTwo(s - 1)) % 2 = 1
                     ELSE dropped # <<>> /\ dropped[1] >= 256
             below == IF s > 0
                      THEN v % PowerOfTwo(s - 1) # 0 \/ \E i \in 1..Len(dropped) : dropped[i] # 0
                      ELSE \/ dropped # <<>> /\ dropped[1] % 256 # 0
                           \/ \E i \in 2..Len(dropped) : dropped[i] # 0
         IN  IF half /\ (below \/ whole % 2 = 1) THEN whole + 1 ELSE whole

\* "{:.2f}".format(x) for a double 0 <= x <= 100
Format2f(x) ==
    LET h == Hundredths(x)
    IN  ToString(h \div 100) \o "." \o ToString((h % 100) \div 10) \o ToString(h % 10)

\* variant: the quotient is printed without the factor 100
FailureRate_not_a_percentage(nfailed, ntotal) ==
    IF ntotal > 0 THEN DoubleDivide(nfailed, ntotal) ELSE ZeroDouble

\* line 126: (failed / total * 100) if total > 0 else 0.0
FailureRate(nfailed, ntotal) ==
    IF ntotal > 0 THEN DoubleTimes100(DoubleDivide(nfailed, ntotal)) ELSE ZeroDouble

\* line 139-149: fail_only["Fail_Reasons"].value_counts(), shown only when
\* some row failed
ReasonCounts(rs) ==
    LET failing == { i \in 1..Len(rs) : rs[i].Status = "FAIL" }
        combos == { rs[i].Fail_Reasons : i \in failing }
    IN  IF failing # {}
        THEN [shown |-> TRUE,
              counts |-> [c \in combos |->
                            Cardinality({ i \in failing : rs[i].Fail_Reasons = c })]]
        ELSE NoCounts

\* pd.read_csv of a file with a header line
read_csv(f) == [columns |-> f.columns, rows |-> f.rows]

\* the analyzer is run after the builder has ended
BuilderEnded == bpc \in {"done", "aborted"}

\* line 35: the input file does not exist; read_csv raises FileNotFoundError
LoadMissingFile ==
    /\ apc = "start"
    /\ BuilderEnded
    /\ ~csv_file.exists
    /\ apc' = "FileNotFoundError"
    /\ UNCHANGED <<df, total, failed, passed, failure_rate, failure_rate_line, reason_counts, annotated_file>>
    /\ UNCHANGED <<fsVars, builderVars>>

\* line 35: the input file has no header; read_csv raises EmptyDataError
LoadEmptyFile ==
    /\ apc = "start"
    /\ BuilderEnded
    /\ csv_file.exists
    /\ csv_file.columns = <<>>
    /\ apc' = "EmptyDataError"
    /\ UNCHANGED <<df, total, failed, passed, failure_rate, failure_rate_line, reason_counts, annotated_file>>
    /\ UNCHANGED <<fsVars, builderVars>>

\* line 35-54: the table is loaded
LoadCsv ==
    /\ apc = "start"
    /\ BuilderEnded
    /\ csv_file.exists
    /\ csv_file.columns # <<>>
    /\ df' = read_csv(csv_file)
    /\ apc' = "loaded"
    /\ UNCHANGED <<total, failed, passed, failure_rate, failure_rate_line, reason_counts, annotated_file>>
    /\ UNCHANGED <<fsVars, builderVars>>

\* line 109-115: every row is classified
ClassifyRows ==
    /\ apc = "loaded"
    /\ df' = AddStatusColumns(df)
    /\ apc' = "classified"
    /\ UNCHANGED <<total, failed, passed, failure_rate, failure_rate_line, reason_counts, annotated_file>>
    /\ UNCHANGED <<fsVars, builderVars>>

\* line 121-149: the pass/fail summary and the reasons breakdown
Summarize ==
    /\ apc = "classified"
    /\ total' = Len(df.rows)
    /\ failed' = CountFail(df.rows)
    /\ passed' = Len(df.rows) - CountFail(df.rows)
    /\ failure_rate' = FailureRate(CountFail(df.rows), Len(df.rows))
    /\ failure_rate_line' = Format2f(FailureRate(CountFail(df.rows), Len(df.rows)))
    /\ reason_counts' = ReasonCounts(df.rows)
    /\ apc' = "summarized"
    /\ UNCHANGED <<df, annotated_file>>
    /\ UNCHANGED <<fsVars, builderVars>>

\* line 202-205: the annotated table is saved
SaveAnnotated ==
    /\ apc = "summarized"
    /\ annotated_file' = to_csv(df)
    /\ apc' = "saved"
    /\ UNCHANGED <<df, total, failed, passed, failure_rate, failure_rate_line, reason_counts>>
    /\ UNCHANGED <<fsVars, builderVars>>

Analyzer ==
    \/ LoadMissingFile
    \/ LoadEmptyFile
    \/ LoadCsv
    \/ ClassifyRows
    \/ Summarize
    \/ SaveAnnotated

InitBuilder ==
    /\ bpc = "start"
    /\ labels = <<>>
    /\ label = ""
    /\ files = <<>>
    /\ pos = 1
    /\ count = 0
    /\ image_id = 0
    /\ rows = <<>>
    /\ csv_file = NoFile

InitAnalyzer ==
    /\ apc = "start"
    /\ df = NoFrame
    /\ total = 0
    /\ failed = 0
    /\ passed = 0
    /\ failure_rate = ZeroDouble
    /\ failure_rate_line = ""
    /\ reason_counts = NoCounts
    /\ annotated_file = NoFile

Init ==
    /\ root_is_dir \in BOOLEAN
    /\ root_listing \in (IF root_is_dir THEN RootListings ELSE {<<>>})
    /\ dirs = [d \in {} |-> <<>>]
    /\ InitBuilder
    /\ InitAnalyzer

\* the pipeline: the builder, then the analyzer on the builder's table
Next == Builder \/ Analyzer

Spec == Init /\ [][Next]_vars

\* the builder alone, running to its end
BuilderSpec == Init /\ [][Builder]_vars /\ WF_vars(Builder)

(***************************************************************************)
(* The analyzer on the table of a one-image corpus, the image's metrics     *)
(* ranging over the samples around the thresholds.                          *)
(***************************************************************************)
BrightnessSamples ==
    {0, 30000, 59999, 60000, 60001, 130000, 199999, 200000, 200001, 255000}
ContrastSamples == {0, 10000, 19999, 20000, 20001, 45000, 127500}

OneImage(b, c) == [ext |-> ".jpg", readable |-> TRUE, brightness |-> b, contrast |-> c]

InitOneImage ==
    \E b \in BrightnessSamples, c \in ContrastSamples :
        LET f == OneImage(b, c)
            path == PathJoin(PathJoin(TRAIN_DIR, "forest"), FileName(1, f))
            r == Row(0, path, "forest", compute_brightness_and_contrast(f))
        IN  /\ root_is_dir = TRUE
            /\ root_listing = <<"forest">>
            /\ dirs = ("forest" :> <<f>>)
            /\ bpc = "done"
            /\ labels = <<>>
            /\ label = "forest"
            /\ files = <<f>>
            /\ pos = 2
            /\ count = 1
            /\ image_id = 1
            /\ rows = <<r>>
            /\ csv_file = to_csv(DataFrame(<<r>>))
            /\ InitAnalyzer

NextOneImage == LoadCsv \/ ClassifyRows \/ Summarize \/ SaveAnnotated

SpecOneImage == InitOneImage /\ [][NextOneImage]_vars

(***************************************************************************)
(* The analyzer on the table of a corpus of two class directories, as a    *)
(* run of the builder with the script's cap of 100 leaves it: n readable   *)
(* images, the first k of them too dark and of low contrast, the others    *)
(* passing.  The sizes are those where failed / total * 100 falls halfway  *)
(* between two values of two decimals (32 and 160), and a small one.       *)
(***************************************************************************)
TableSizes == {3, 32, 160}

TableLabel(j, n) == IF j <= n \div 2 THEN "buildings" ELSE "forest"

\* the position of the j-th image in the listing of its directory
TableIndex(j, n) == IF j <= n \div 2 THEN j ELSE j - n \div 2

TableImage(j, k) == IF j <= k THEN OneImage(30000, 10000) ELSE OneImage(120000, 45000)

TableRows(n, k) ==
    [j \in 1..n |->
        Row(j - 1,
            PathJoin(PathJoin(TRAIN_DIR, TableLabel(j, n)),
                     FileName(TableIndex(j, n), TableImage(j, k))),
            TableLabel(j, n),
            compute_brightness_and_contrast(TableImage(j, k)))]

InitTable ==
    \E n \in TableSizes : \E k \in 0..n :
        LET first == [j \in 1..(n \div 2) |-> TableImage(j, k)]
            second == [j \in 1..(n - n \div 2) |-> TableImage(n \div 2 + j, k)]
        IN  /\ root_is_dir = TRUE
            /\ root_listing = <<"buildings", "forest">>
            /\ dirs = ("buildings" :> first) @@ ("forest" :> second)
            /\ bpc = "done"
            /\ labels = <<>>
            /\ label = "forest"
            /\ files = second
            /\ pos = Len(second) + 1
            /\ count = Len(second)
            /\ image_id = n
            /\ rows = TableRows(n, k)
            /\ csv_file = to_csv(DataFrame(TableRows(n, k)))
            /\ InitAnalyzer

SpecTable == InitTable /\ [][NextOneImage]_vars

(***************************************************************************)
(* Properties.                                                             *)
(***************************************************************************)
Min(a, b) == IF a < b THEN a ELSE b

RECURSIVE SumOver(_, _)
SumOver(f, S) ==
    IF S = {} THEN 0
    ELSE LET x == CHOOSE y \in S : TRUE IN f[x] + SumOver(f, S \ {x})

\* the eligible extensions, as the input convention states them
EligibleFile(f) == f.ext \in {".jpg", ".jpeg", ".png", ".JPG", ".JPEG", ".PNG"}

EligibleIn(fs) == { i \in 1..Len(fs) : EligibleFile(fs[i]) }
CorruptIn(fs) == { i \in EligibleIn(fs) : ~fs[i].readable }
GoodIn(fs) == { i \in EligibleIn(fs) : fs[i].readable }

TotalEligible == SumOver([l \in DOMAIN dirs |-> Cardinality(EligibleIn(dirs[l]))], DOMAIN dirs)
TotalCorrupt == SumOver([l \in DOMAIN dirs |-> Cardinality(CorruptIn(dirs[l]))], DOMAIN dirs)

RowsOf(rs, l) == { i \in 1..Len(rs) : rs[i].Label = l }

DenseIds(rs) == \A i \in 1..Len(rs) : rs[i].Image_ID = i - 1

\* C1: the Image_ID values of the accepted records are 0, 1, ..., n-1 in the
\* order of appending and the image_id counter is the number of records, at
\* every point of the scan and in the saved table.
C1_DenseImageIds ==
    /\ image_id = Len(rows)
    /\ DenseIds(rows)
    /\ csv_file.exists => (csv_file.rows = rows /\ DenseIds(csv_file.rows))

C1_Witness ==
    /\ csv_file.exists
    /\ Len(csv_file.rows) = 3
    /\ Cardinality(DOMAIN dirs) = 2
    /\ TotalCorrupt >= 1
    /\ \E l \in DOMAIN dirs : \E i \in 1..Len(dirs[l]) : ~EligibleFile(dirs[l][i])

\* C2: no label ever has more than images_per_class records; failures and
\* non-eligible files do not count toward the cap; when the builder has
\* finished, every class directory has min(images_per_class, number of its
\* eligible files whose extraction succeeds) records.
C2_PerClassCap ==
    /\ \A l \in DOMAIN dirs : Cardinality(RowsOf(rows, l)) <= IMAGES_PER_CLASS
    /\ bpc = "files" => count = Cardinality(RowsOf(rows, label))
    /\ bpc = "done" =>
          /\ DOMAIN dirs = { root_listing[i] : i \in { j \in 1..Len(root_listing) :
                                                         IsClassDir(root_listing[j]) } }
          /\ \A l \in DOMAIN dirs :
                Cardinality(RowsOf(csv_file.rows, l))
                    = Min(IMAGES_PER_CLASS, Cardinality(GoodIn(dirs[l])))

\* two labels with three readable eligible images each and a cap of two: two
\* records per label, numbered in label-sorted then scan order
C2_Witness ==
    /\ bpc = "done"
    /\ DOMAIN dirs = {"buildings", "forest"}
    /\ \A l \in DOMAIN dirs : Cardinality(GoodIn(dirs[l])) = 3
    /\ Len(csv_file.rows) = 4
    /\ \A i \in 1..4 : /\ csv_file.rows[i].Image_ID = i - 1
                       /\ csv_file.rows[i].Label = IF i <= 2 THEN "buildings" ELSE "forest"
    /\ csv_file.rows[2].Filepath = "seg_train/seg_train/buildings/img2.jpg"

\* the next file of the inner loop is admitted and its extraction fails
FailingFileNext ==
    /\ bpc = "files"
    /\ pos <= Len(files)
    /\ count < IMAGES_PER_CLASS
    /\ EligibleFile(files[pos])
    /\ ~files[pos].readable

C3_FailureStep ==
    FailingFileNext =>
        /\ rows' = rows
        /\ image_id' = image_id
        /\ count' = count
        /\ csv_file' = csv_file
        /\ pos' = pos + 1
        /\ bpc' = "files"

OneCorruptFile == bpc = "done" /\ TotalCorrupt = 1

\* C3 as stated: with one corrupt file among otherwise valid eligible files the
\* saved table has (eligible files - 1) rows.
C3_AsStated == OneCorruptFile => Len(csv_file.rows) = TotalEligible - 1

\* C3, amended: a failed extraction appends nothing, leaves rows, image_id and
\* count unchanged and the loop goes on with the next file; the run then
\* reaches the save of the table; and with one corrupt file among otherwise
\* valid eligible files the saved table has (eligible files - 1) rows provided
\* no class directory holds more than images_per_class readable eligible files.
C3_FailureSkipped ==
    /\ [][C3_FailureStep]_vars
    /\ [](root_is_dir => bpc # "aborted")
    /\ (FailingFileNext ~> (bpc = "done" /\ csv_file.exists))
    /\ []((OneCorruptFile
            /\ \A l \in DOMAIN dirs : Cardinality(GoodIn(dirs[l])) <= IMAGES_PER_CLASS)
          => Len(csv_file.rows) = TotalEligible - 1)

C3_Witness ==
    /\ OneCorruptFile
    /\ \A l \in DOMAIN dirs : Cardinality(GoodIn(dirs[l])) <= IMAGES_PER_CLASS
    /\ \E l \in DOMAIN dirs : Len(dirs[l]) >= 1 /\ 1 \in CorruptIn(dirs[l])
    /\ TotalEligible = 3
    /\ Len(csv_file.rows) = 2

\* C4: when the input root is not a directory the builder stops before any
\* output: no label is enumerated, no extraction is attempted and the
\* intermediate table is never written.
C4_AbortWritesNothing ==
    ~root_is_dir =>
        /\ bpc \in {"start", "aborted"}
        /\ DOMAIN dirs = {}
        /\ labels = <<>>
        /\ files = <<>>
        /\ pos = 1
        /\ rows = <<>>
        /\ ~csv_file.exists
        /\ ~annotated_file.exists

C4_Witness == ~root_is_dir /\ bpc = "aborted" /\ apc = "FileNotFoundError"

\* C5: when the builder accepts no record, the intermediate table still has
\* the five-column header with zero data rows, and the analyzer completes on
\* it without raising, reporting total = 0, failed = 0, failure rate 0.00 and
\* no reason breakdown.
C5_EmptyCorpusHandled ==
    (bpc = "done" /\ rows = <<>>) =>
        /\ csv_file.columns = <<"Image_ID", "Filepath", "Label", "Brightness", "Contrast">>
        /\ csv_file.rows = <<>>
        /\ apc \notin {"FileNotFoundError", "EmptyDataError"}
        /\ apc \in {"summarized", "saved"} =>
              (total = 0 /\ failed = 0 /\ failure_rate_line = "0.00" /\ ~reason_counts.shown)

Classified == apc \in {"classified", "summarized", "saved"}

\* C6: after classification every record has Status = FAIL exactly when its
\* reason list is non-empty, Status = PASS exactly when Fail_Reasons is the
\* empty string, and Status is PASS or FAIL.
C6_StatusIffReasons ==
    Classified =>
        \A i \in 1..Len(df.rows) :
            /\ df.rows[i].Status \in {"PASS", "FAIL"}
            /\ df.rows[i].Status = "FAIL" <=> Reasons(df.rows[i]) # <<>>
            /\ df.rows[i].Status = "PASS" <=> df.rows[i].Fail_Reasons = ""

C6_Witness ==
    /\ Classified
    /\ \E i \in 1..Len(df.rows) :
          /\ df.rows[i].Status = "FAIL"
          /\ df.rows[i].Fail_Reasons = "low_contrast"
          /\ df.rows[i].Brightness = 130000

\* the reason tags of a serialized reason string
TagsOf(str) ==
    CASE str = "" -> {}
      [] str = "too_dark" -> {"too_dark"}
      [] str = "too_bright" -> {"too_bright"}
      [] str = "low_contrast" -> {"low_contrast"}
      [] str = "too_dark;too_bright" -> {"too_dark", "too_bright"}
      [] str = "too_dark;low_contrast" -> {"too_dark", "low_contrast"}
      [] str = "too_bright;low_contrast" -> {"too_bright", "low_contrast"}
      [] str = "too_dark;too_bright;low_contrast" -> {"too_dark", "too_bright", "low_contrast"}
      [] OTHER -> {"unknown"}

\* C7: too_dark is present iff brightness < 60, too_bright iff brightness > 200,
\* low_contrast iff contrast < 20 (thousandths: 60000, 200000, 20000), so the
\* threshold values themselves add no reason.
C7_StrictThresholds ==
    Classified =>
        \A i \in 1..Len(df.rows) :
            LET r == df.rows[i]
                tags == TagsOf(r.Fail_Reasons)
            IN  /\ tags \subseteq {"too_dark", "too_bright", "low_contrast"}
                /\ "too_dark" \in tags <=> r.Brightness < 60000
                /\ "too_bright" \in tags <=> r.Brightness > 200000
                /\ "low_contrast" \in tags <=> r.Contrast < 20000

\* a brightness on the threshold next to a contrast just below its threshold
C7_Witness ==
    /\ Classified
    /\ \E i \in 1..Len(df.rows) :
          /\ df.rows[i].Brightness = 60000
          /\ df.rows[i].Contrast = 19999
          /\ df.rows[i].Fail_Reasons = "low_contrast"

\* the reason string the three rules call for, in the order too_dark,
\* too_bright, low_contrast
ExpectedReasons(b, c) ==
    CASE b < 60000 /\ c < 20000 -> "too_dark;low_contrast"
      [] b < 60000 /\ c >= 20000 -> "too_dark"
      [] b > 200000 /\ c < 20000 -> "too_bright;low_contrast"
      [] b > 200000 /\ c >= 20000 -> "too_bright"
      [] b >= 60000 /\ b <= 200000 /\ c < 20000 -> "low_contrast"
      [] OTHER -> ""

\* C8: the brightness rules and the contrast rule are independent and
\* cumulative: Fail_Reasons is the semicolon-joined subsequence of too_dark,
\* too_bright, low_contrast made of the triggered rules, without duplicates.
C8_CumulativeOrderedReasons ==
    Classified =>
        \A i \in 1..Len(df.rows) :
            df.rows[i].Fail_Reasons
                = ExpectedReasons(df.rows[i].Brightness, df.rows[i].Contrast)

C8_Witness ==
    /\ Classified
    /\ \E i \in 1..Len(df.rows) :
          /\ df.rows[i].Brightness = 30000
          /\ df.rows[i].Contrast = 10000
          /\ df.rows[i].Fail_Reasons = "too_dark;low_contrast"
          /\ df.rows[i].Status = "FAIL"

Abs(x) == IF x < 0 THEN -x ELSE x

\* the integers h for which h / 100 is a value of two decimals nearest to
\* nfailed / ntotal * 100; two of them when the rate is halfway between
NearestHundredths(nfailed, ntotal) ==
    LET q == (nfailed * 10000) \div ntotal
    IN  { h \in {q, q + 1} : 2 * Abs(h * ntotal - nfailed * 10000) <= ntotal }

\* h / 100 written with two decimals
TwoDecimals(h) ==
    ToString(h \div 100) \o "." \o ToString((h \div 10) % 10) \o ToString(h % 10)

BuilderFields(r) ==
    [Image_ID |-> r.Image_ID, Filepath |-> r.Filepath, Label |-> r.Label,
     Brightness |-> r.Brightness, Contrast |-> r.Contrast]

SameRecords(rs, loaded) ==
    /\ Len(rs) = Len(loaded)
    /\ \A i \in 1..Len(rs) :
          /\ BuilderFields(rs[i]) = loaded[i]
          /\ DOMAIN rs[i] = DOMAIN loaded[i] \cup {"Status", "Fail_Reasons"}

====
